---- MODULE Spec2Model ----
(***************************************************************************)
(* Model of mesh_meeting.py: the slot grid builder, the availability       *)
(* mapper, the matcher and the calendar emitter.                           *)
(*                                                                         *)
(* Representation.                                                         *)
(*  - A datetime is the number of minutes since 1900-01-01 00:00, the      *)
(*    Monday that strptime uses when no date is given.                     *)
(*  - A clock text ("9:00am", "09:15AM") is a record [hh, mm, ap]; a time  *)
(*    range text ("Monday 9:00am-11:00am") is [day, start, end].           *)
(*  - A participant key is a string, held as the sequence of its code      *)
(*    points, so that sorting and f"{a}_{b}" are what Python computes.     *)
(*  - time_slots and schedule, the dicts the program iterates to compute   *)
(*    something, are the sequences of their <<key, value>> items in        *)
(*    insertion order. meetings, match_count, vcal_registry and            *)
(*    vcal_by_user are functions on their keys: their insertion order is   *)
(*    not modelled.                                                        *)
(*  - random.shuffle(potential_matches) followed by the for loop over the  *)
(*    list is the loop drawing, at each iteration, any slot not drawn yet: *)
(*    todo holds the slots whose place in the shuffled list is still open. *)
(***************************************************************************)
EXTENDS Integers, Sequences, FiniteSets

VARIABLES
    pc,                 \* position of the run
    current_time,       \* generate_time_slots: the walk's tick
    time_slots,         \* dict: slot label -> set of participant keys
    schedule,           \* dict: participant key -> availability (list of range texts)
    potential_matches,  \* list of slot labels
    todo,               \* generate_meetings: slots of the shuffled list not reached yet
    k,                  \* generate_meetings: the loop variable (a list of 0 or 1 slot)
    meetings,           \* dict: participant key -> dict: slot label -> participant key
    match_count,        \* dict: pair key -> count
    trials,             \* history: per processed slot, the outcome of each trial
    vcal_registry,      \* dict: pair key -> invite
    vcal_by_user        \* dict: participant key -> list of invites

vars == <<pc, current_time, time_slots, schedule, potential_matches, todo, k,
          meetings, match_count, trials, vcal_registry, vcal_by_user>>

----------------------------------------------------------------------------
(* Python dicts and lists *)

Range(s) == {s[i] : i \in 1..Len(s)}

DictKeys(d) == {d[i][1] : i \in 1..Len(d)}

DictHas(d, key) == \E i \in 1..Len(d) : d[i][1] = key

DictGet(d, key) == d[CHOOSE i \in 1..Len(d) : d[i][1] = key][2]

\* d[k] = v: replaces the value of an existing key in place, else appends.
DictSet(d, key, v) ==
    IF DictHas(d, key)
    THEN LET i == CHOOSE j \in 1..Len(d) : d[j][1] = key
         IN  SubSeq(d, 1, i - 1) \o << <<key, v>> >> \o SubSeq(d, i + 1, Len(d))
    ELSE Append(d, <<key, v>>)

\* The same on a dict held as a function: f[k] = v.
FnSet(f, key, v) == [x \in DOMAIN f \cup {key} |-> IF x = key THEN v ELSE f[x]]

\* A defaultdict read f[k]: a missing key is inserted with the default.
DefaultTouch(f, key, dflt) == IF key \in DOMAIN f THEN f ELSE FnSet(f, key, dflt)

----------------------------------------------------------------------------
(* Clock texts and time ranges: strftime / strptime / convert_to_datetime *)

MinutesPerDay == 1440

WeekdayName == <<"Monday", "Tuesday", "Wednesday", "Thursday", "Friday",
                 "Saturday", "Sunday">>

\* strftime("%A"): 1900-01-01 is a Monday.
StrfWeekday(t) == WeekdayName[((t \div MinutesPerDay) % 7) + 1]

\* strftime("%I:%M%p")
StrfClock(t) ==
    LET h24 == (t % MinutesPerDay) \div 60
    IN  [hh |-> IF h24 % 12 = 0 THEN 12 ELSE h24 % 12,
         mm |-> t % 60,
         ap |-> IF h24 < 12 THEN "AM" ELSE "PM"]

\* strptime("%I:%M%p") accepts an hour 1..12, a minute 0..59 and am/pm in
\* either case.
ClockOK(c) == c.hh \in 1..12 /\ c.mm \in 0..59 /\ c.ap \in {"am", "pm", "AM", "PM"}

StrpClock(c) ==
    ((c.hh % 12) + (IF c.ap \in {"pm", "PM"} THEN 12 ELSE 0)) * 60 + c.mm

day_index ==
    [d \in {"Monday", "Tuesday", "Wednesday", "Thursday", "Friday"} |->
        CASE d = "Monday" -> 0
          [] d = "Tuesday" -> 1
          [] d = "Wednesday" -> 2
          [] d = "Thursday" -> 3
          [] d = "Friday" -> 4]

\* convert_to_datetime raises (KeyError, ValueError) on these texts.
ConvertRaises(r) ==
    \/ r.day \notin DOMAIN day_index
    \/ ~ClockOK(r.start)
    \/ ~ClockOK(r.end)

\* <<start_datetime, end_datetime>>; no comparison of the two is made.
convert_to_datetime(r) ==
    <<StrpClock(r.start) + day_index[r.day] * MinutesPerDay,
      StrpClock(r.end) + day_index[r.day] * MinutesPerDay>>

----------------------------------------------------------------------------
(* generate_time_slots *)

SlotMinutes == 15
WorkStartHour == 9
WorkEndHour == 17
WalkDays == 4
WalkHours == 3

GridStart == StrpClock([hh |-> 9, mm |-> 0, ap |-> "am"])
GridEnd == GridStart + WalkDays * MinutesPerDay + WalkHours * 60

HourOf(t) == (t % MinutesPerDay) \div 60

\* Variant: the upper hour included.
InWorkingHours_Inclusive(t) == HourOf(t) <= WorkEndHour /\ HourOf(t) >= WorkStartHour

InWorkingHours(t) == HourOf(t) < WorkEndHour /\ HourOf(t) >= WorkStartHour

SlotLabel(t) ==
    [day |-> StrfWeekday(t), start |-> StrfClock(t), end |-> StrfClock(t + SlotMinutes)]

\* One iteration of the while loop.
generate_time_slots_step ==
    /\ pc = "grid"
    /\ current_time < GridEnd
    /\ \/ /\ InWorkingHours(current_time)
          /\ time_slots' = DictSet(time_slots, SlotLabel(current_time), {})
       \/ /\ ~InWorkingHours(current_time)
          /\ time_slots' = time_slots
    /\ current_time' = current_time + SlotMinutes
    /\ UNCHANGED <<pc, schedule, potential_matches, todo, k, meetings, match_count,
                   trials, vcal_registry, vcal_by_user>>

generate_time_slots_return ==
    /\ pc = "grid"
    /\ ~(current_time < GridEnd)
    /\ pc' = "grid_done"
    /\ UNCHANGED <<current_time, time_slots, schedule, potential_matches, todo, k,
                   meetings, match_count, trials, vcal_registry, vcal_by_user>>

InitGrid ==
    /\ pc = "grid"
    /\ current_time = GridStart
    /\ time_slots = <<>>
    /\ schedule = <<>>
    /\ potential_matches = <<>>
    /\ todo = {}
    /\ k = <<>>
    /\ meetings = <<>>
    /\ match_count = <<>>
    /\ trials = <<>>
    /\ vcal_registry = <<>>
    /\ vcal_by_user = <<>>

NextGrid == generate_time_slots_step \/ generate_time_slots_return

SpecGrid == InitGrid /\ [][NextGrid]_vars

\* The dict generate_time_slots returns. The while loop runs over the ticks
\* GridStart + n * SlotMinutes below GridEnd, n = lo..hi, in order; the fold
\* is split in two halves to keep the evaluation shallow.
NumTicks == (GridEnd - GridStart + SlotMinutes - 1) \div SlotMinutes

RECURSIVE GridFrom(_, _, _)
GridFrom(lo, hi, acc) ==
    IF lo > hi THEN acc
    ELSE IF lo = hi
    THEN LET t == GridStart + lo * SlotMinutes
         IN  IF InWorkingHours(t) THEN DictSet(acc, SlotLabel(t), {}) ELSE acc
    ELSE LET mid == (lo + hi) \div 2
             left == GridFrom(lo, mid, acc)
         IN  IF Len(left) >= 0 THEN GridFrom(mid + 1, hi, left) ELSE left

generate_time_slots == GridFrom(0, NumTicks - 1, <<>>)

----------------------------------------------------------------------------
(* Participant keys *)

Underscore == <<95>>                 \* "_"

\* Python's str comparison: lexicographic on code points.
RECURSIVE StrLess(_, _)
StrLess(a, b) ==
    IF b = <<>> THEN FALSE
    ELSE IF a = <<>> THEN TRUE
    ELSE IF a[1] # b[1] THEN a[1] < b[1]
    ELSE StrLess(Tail(a), Tail(b))

\* Variant: the pair is left in the order drawn.
SortPair_Unsorted(p0, p1) == <<p0, p1>>

\* abc = [p0, p1]; abc.sort()
SortPair(p0, p1) == IF StrLess(p1, p0) THEN <<p1, p0>> ELSE <<p0, p1>>

\* f"{abc[0]}_{abc[1]}"
PairKey(p0, p1) == SortPair(p0, p1)[1] \o Underscore \o SortPair(p0, p1)[2]

\* The keys of the schedules examined: "a", "b_c", "a_b", "c", "d", "e", "f".
Keys == << <<97>>, <<98, 95, 99>>, <<97, 95, 98>>, <<99>>, <<100>>, <<101>>, <<102>> >>

----------------------------------------------------------------------------
(* populate_time_slots and calculate_matches *)

Clock(h, m, a) == [hh |-> h, mm |-> m, ap |-> a]

TimeRange(d, s, e) == [day |-> d, start |-> s, end |-> e]

\* Variant: the comparison with closed bounds.
Overlaps_Closed(slot, avail) == slot[1] <= avail[2] /\ slot[2] >= avail[1]

\* slot_start < avail_end and slot_end > avail_start
Overlaps(slot, avail) == slot[1] < avail[2] /\ slot[2] > avail[1]

\* for time_range in availability: ...   (st = [ts, raised])
RECURSIVE ForRanges(_, _, _, _, _)
ForRanges(st, person, slot, availability, j) ==
    IF st.raised \/ j > Len(availability) THEN st
    ELSE IF ConvertRaises(availability[j]) THEN [ts |-> st.ts, raised |-> TRUE]
    ELSE ForRanges(
            [ts |-> IF Overlaps(convert_to_datetime(slot),
                                convert_to_datetime(availability[j]))
                    THEN DictSet(st.ts, slot, DictGet(st.ts, slot) \cup {person})
                    ELSE st.ts,
             raised |-> FALSE],
            person, slot, availability, j + 1)

\* for slot in time_slots: slot_start, slot_end = convert_to_datetime(slot); ...
\* over the slots lo..hi in order (the fold is split in two halves to keep the
\* evaluation shallow).
RECURSIVE ForSlots(_, _, _, _, _)
ForSlots(st, person, availability, lo, hi) ==
    IF st.raised \/ lo > hi THEN st
    ELSE IF lo = hi
    THEN IF ConvertRaises(st.ts[lo][1]) THEN [ts |-> st.ts, raised |-> TRUE]
         ELSE ForRanges(st, person, st.ts[lo][1], availability, 1)
    ELSE LET mid == (lo + hi) \div 2
         IN  ForSlots(ForSlots(st, person, availability, lo, mid),
                      person, availability, mid + 1, hi)

\* for person, availability in people_availability.items(): ...
RECURSIVE ForPeople(_, _, _)
ForPeople(st, people_availability, n) ==
    IF st.raised \/ n > Len(people_availability) THEN st
    ELSE ForPeople(ForSlots(st, people_availability[n][1], people_availability[n][2],
                            1, Len(st.ts)),
                   people_availability, n + 1)

PeopleAvailability(sched) ==
    [n \in 1..Len(sched) |-> <<sched[n][1], sched[n][2].availability>>]

PopulateResult(ts, sched) ==
    ForPeople([ts |-> ts, raised |-> FALSE], PeopleAvailability(sched), 1)

populate_time_slots ==
    /\ pc = "populate"
    /\ LET r == PopulateResult(time_slots, schedule)
       IN  /\ time_slots' = r.ts
           /\ pc' = IF r.raised THEN "raised" ELSE "mapped"
    /\ UNCHANGED <<current_time, schedule, potential_matches, todo, k, meetings,
                   match_count, trials, vcal_registry, vcal_by_user>>

\* if len(people) > 1: potential_matches.append(slot)
IsCandidate(people) == Cardinality(people) > 1

\* for slot, people in time_slots.items(): ...   over the items lo..hi in order
RECURSIVE MatchesFrom(_, _, _)
MatchesFrom(ts, lo, hi) ==
    IF lo > hi THEN <<>>
    ELSE IF lo = hi
    THEN IF IsCandidate(ts[lo][2]) THEN <<ts[lo][1]>> ELSE <<>>
    ELSE LET mid == (lo + hi) \div 2
         IN  MatchesFrom(ts, lo, mid) \o MatchesFrom(ts, mid + 1, hi)

calculate_matches ==
    /\ pc = "mapped"
    /\ potential_matches' = MatchesFrom(time_slots, 1, Len(time_slots))
    /\ pc' = "matched"
    /\ UNCHANGED <<current_time, time_slots, schedule, todo, k, meetings, match_count,
                   trials, vcal_registry, vcal_by_user>>

\* The schedules examined: the participants "a" and "b_c", each declaring at
\* most MaxWindows of the windows below.
MapKeys == <<Keys[1], Keys[2]>>
MaxWindows == 1

WindowChoices ==
    {TimeRange("Monday", Clock(9, 0, "am"), Clock(9, 15, "am")),
     TimeRange("Monday", Clock(9, 15, "am"), Clock(9, 40, "am")),
     TimeRange("Monday", Clock(9, 10, "am"), Clock(9, 10, "am")),
     TimeRange("Monday", Clock(9, 10, "am"), Clock(9, 5, "am")),
     TimeRange("Thursday", Clock(12, 0, "pm"), Clock(1, 0, "pm")),
     TimeRange("Friday", Clock(11, 45, "am"), Clock(12, 30, "pm")),
     TimeRange("Saturday", Clock(9, 0, "am"), Clock(9, 15, "am"))}

RECURSIVE SeqsUpTo(_, _)
SeqsUpTo(S, n) ==
    IF n = 0 THEN {<<>>}
    ELSE SeqsUpTo(S, n - 1)
         \cup {Append(t, x) : t \in {u \in SeqsUpTo(S, n - 1) : Len(u) = n - 1}, x \in S}

Schedules ==
    {[n \in 1..Len(MapKeys) |-> <<MapKeys[n], [name |-> MapKeys[n], availability |-> av[n]]>>] :
        av \in [1..Len(MapKeys) -> SeqsUpTo(WindowChoices, MaxWindows)]}

InitMap ==
    /\ pc = "populate"
    /\ current_time = GridEnd
    /\ time_slots = generate_time_slots
    /\ schedule \in Schedules
    /\ potential_matches = <<>>
    /\ todo = {}
    /\ k = <<>>
    /\ meetings = <<>>
    /\ match_count = <<>>
    /\ trials = <<>>
    /\ vcal_registry = <<>>
    /\ vcal_by_user = <<>>

NextMap == populate_time_slots \/ calculate_matches

SpecMap == InitMap /\ [][NextMap]_vars

----------------------------------------------------------------------------
(* generate_meetings *)

max_meetings_per_person == 3

\* Variant: the cap compared with <=.
PersonFree_OffByOne(m, p) == Cardinality(DOMAIN m[p]) <= max_meetings_per_person

\* len(meetings[p]) < max_meetings_per_person
PersonFree(m, p) == Cardinality(DOMAIN m[p]) < max_meetings_per_person

\* match_count[f"{abc[0]}_{abc[1]}"] == 0
PairFree(mc, key) == mc[key] = 0

\* The condition of the if, evaluated left to right with short circuit; each
\* read of a defaultdict inserts the missing key. The result holds the two
\* dicts after the reads and whether the condition is true.
Condition(m, mc, p0, p1) ==
    LET m1 == DefaultTouch(m, p0, <<>>)
        ok0 == PersonFree(m1, p0)
        m2 == IF ok0 THEN DefaultTouch(m1, p1, <<>>) ELSE m1
        ok1 == ok0 /\ PersonFree(m2, p1)
        mc1 == IF ok1 THEN DefaultTouch(mc, PairKey(p0, p1), 0) ELSE mc
    IN  [m |-> m2, mc |-> mc1, passed |-> ok1 /\ PairFree(mc1, PairKey(p0, p1))]

\* Variant: the meeting recorded under p0 only.
Commit_OneWay(m, mc, slot, p0, p1) ==
    [m |-> FnSet(m, p0, FnSet(m[p0], slot, p1)),
     mc |-> FnSet(mc, PairKey(p0, p1), mc[PairKey(p0, p1)] + 1)]

\* meetings[p0][k] = p1; meetings[p1][k] = p0; match_count[key] += 1
Commit(m, mc, slot, p0, p1) ==
    LET m1 == FnSet(m, p0, FnSet(m[p0], slot, p1))
        m2 == FnSet(m1, p1, FnSet(m1[p1], slot, p0))
    IN  [m |-> m2, mc |-> FnSet(mc, PairKey(p0, p1), mc[PairKey(p0, p1)] + 1)]

\* One trial of a pair at a slot: the if and, when it holds, its body.
Trial(m, mc, slot, p0, p1) ==
    LET c == Condition(m, mc, p0, p1)
    IN  IF c.passed
        THEN [m |-> Commit(c.m, c.mc, slot, p0, p1).m,
              mc |-> Commit(c.m, c.mc, slot, p0, p1).mc,
              passed |-> TRUE]
        ELSE c

\* Variant: the second pair is tried whatever the first trial did.
Retry_Always(passed) == TRUE

\* The else branch is taken when the condition of the if is false.
Retry(passed) == ~passed

\* Variant: p1 read from people[0] as well.
FirstTwo_SamePerson(people) == {<<a, a>> : a \in people}

\* people = list(time_slots[k]); random.shuffle(people); p0 = people[0];
\* p1 = people[1]: any two different members, in either order.
FirstTwo(people) == {<<a, b>> : a \in people, b \in people} \ {<<a, a>> : a \in people}

\* meetings = defaultdict(...); random.shuffle(potential_matches); match_count = ...
generate_meetings_begin ==
    /\ pc = "matched"
    /\ todo' = Range(potential_matches)
    /\ meetings' = <<>>
    /\ match_count' = <<>>
    /\ k' = <<>>
    /\ pc' = "for"
    /\ UNCHANGED <<current_time, time_slots, schedule, potential_matches, trials,
                   vcal_registry, vcal_by_user>>

\* for k in potential_matches: the first pair
first_trial ==
    /\ pc = "for"
    /\ \E slot \in todo :
        /\ todo' = todo \ {slot}
        /\ k' = <<slot>>
        /\ \E pair \in FirstTwo(DictGet(time_slots, slot)) :
             LET t == Trial(meetings, match_count, slot, pair[1], pair[2])
             IN  /\ meetings' = t.m
                 /\ match_count' = t.mc
                 /\ trials' = FnSet(trials, slot, <<t.passed>>)
                 /\ \/ /\ ~Retry(t.passed)
                       /\ pc' = "for"
                    \/ /\ Retry(t.passed)
                       /\ pc' = "else"
    /\ UNCHANGED <<current_time, time_slots, schedule, potential_matches,
                   vcal_registry, vcal_by_user>>

\* else: random.shuffle(people); the second pair
second_trial ==
    /\ pc = "else"
    /\ \E pair \in FirstTwo(DictGet(time_slots, k[1])) :
         LET t == Trial(meetings, match_count, k[1], pair[1], pair[2])
         IN  /\ meetings' = t.m
             /\ match_count' = t.mc
             /\ trials' = FnSet(trials, k[1], Append(trials[k[1]], t.passed))
    /\ pc' = "for"
    /\ UNCHANGED <<current_time, time_slots, schedule, potential_matches, todo, k,
                   vcal_registry, vcal_by_user>>

\* return meetings
generate_meetings_return ==
    /\ pc = "for"
    /\ todo = {}
    /\ pc' = "meetings_done"
    /\ UNCHANGED <<current_time, time_slots, schedule, potential_matches, todo, k,
                   meetings, match_count, trials, vcal_registry, vcal_by_user>>

----------------------------------------------------------------------------
(* generate_vcal_files *)

\* The Mondays given as absolute_monday, in minutes since 1900-01-01 00:00
\* (2024-01-01 and 2024-01-08).
AnchorMondays == {45290 * MinutesPerDay, 45297 * MinutesPerDay}

\* make_vcal: the event's summary (the two names), dtstart, dtend and attendees.
make_vcal(sched, p0, p1, meet_time, end_time) ==
    [summary |-> <<DictGet(sched, p0).name, DictGet(sched, p1).name>>,
     dtstart |-> meet_time,
     dtend |-> end_time,
     attendee |-> <<p0, p1>>]

\* vcal_by_user[p].append(invite) on a defaultdict of lists
AppendTo(by_user, p, invite) ==
    FnSet(by_user, p, Append(DefaultTouch(by_user, p, <<>>)[p], invite))

\* Variant: no look-up of the key in vcal_registry.
VcalItem_NoRegistryCheck(st, sched, last_monday, p0, meet_time, p1) ==
    LET abc == SortPair(p0, p1)
        slot == convert_to_datetime(meet_time)
        invite == make_vcal(sched, abc[1], abc[2],
                            slot[1] + last_monday, slot[2] + last_monday)
    IN  [registry |-> FnSet(st.registry, PairKey(p0, p1), invite),
         by_user |-> AppendTo(AppendTo(st.by_user, abc[1], invite), abc[2], invite)]

\* The body of the inner loop for the item (p0, meet_time, p1).
\* st = [registry, by_user]
VcalItem(st, sched, last_monday, p0, meet_time, p1) ==
    LET abc == SortPair(p0, p1)
        key == PairKey(p0, p1)
        slot == convert_to_datetime(meet_time)
        invite == make_vcal(sched, abc[1], abc[2],
                            slot[1] + last_monday, slot[2] + last_monday)
    IN  IF key \notin DOMAIN st.registry
        THEN [registry |-> FnSet(st.registry, key, invite),
              by_user |-> AppendTo(AppendTo(st.by_user, abc[1], invite), abc[2], invite)]
        ELSE st

\* The items of meetings: <<p0, meet_time, p1>>.
Items(m) == UNION {{<<p0, slot, m[p0][slot]>> : slot \in DOMAIN m[p0]} : p0 \in DOMAIN m}

\* The order in which the items are visited here: by participant key, then
\* by slot start. (The program visits them in insertion order, which is not
\* modelled; the order decides the order of the lists only, as long as no two
\* items of different meetings share a pair key.)
ItemBefore(e, f) ==
    \/ StrLess(e[1], f[1])
    \/ e[1] = f[1] /\ convert_to_datetime(e[2])[1] < convert_to_datetime(f[2])[1]

\* for p0, meetings in meetings.items(): for meet_time, p1 in meetings.items(): ...
RECURSIVE VcalLoop(_, _, _, _)
VcalLoop(st, sched, last_monday, items) ==
    IF items = {} THEN st
    ELSE LET e == CHOOSE x \in items : \A y \in items \ {x} : ItemBefore(x, y)
         IN  VcalLoop(VcalItem(st, sched, last_monday, e[1], e[2], e[3]),
                      sched, last_monday, items \ {e})

generate_vcal_files ==
    /\ pc = "meetings_done"
    /\ \E last_monday \in AnchorMondays :
         LET r == VcalLoop([registry |-> <<>>, by_user |-> <<>>], schedule,
                           last_monday, Items(meetings))
         IN  /\ vcal_registry' = r.registry
             /\ vcal_by_user' = r.by_user
    /\ pc' = "vcal_done"
    /\ UNCHANGED <<current_time, time_slots, schedule, potential_matches, todo, k,
                   meetings, match_count, trials>>

\* The runs examined: the first MatchSlots slots of the grid and MatchPersons
\* participants. The first participant declares no window, the first slot
\* only, or all the slots; participant n > 1 declares no window, slot n - 1
\* only, or slots n - 2 and n - 1.
MatchPersons == 5
MatchSlots == 4

MatchGrid == SubSeq(generate_time_slots, 1, MatchSlots)

\* "Monday <start of slot lo>-<end of slot hi>"
SlotsWindow(lo, hi) ==
    TimeRange("Monday", MatchGrid[lo][1].start, MatchGrid[hi][1].end)

Clamp(i) == IF i < 1 THEN 1 ELSE IF i > MatchSlots THEN MatchSlots ELSE i

MatchWindows(n) ==
    IF n = 1
    THEN {<<>>, <<SlotsWindow(1, 1)>>, <<SlotsWindow(1, MatchSlots)>>}
    ELSE {<<>>, <<SlotsWindow(Clamp(n - 1), Clamp(n - 1))>>,
          <<SlotsWindow(Clamp(n - 2), Clamp(n - 1))>>}

MatchSchedules ==
    {[n \in 1..MatchPersons |-> <<Keys[n], [name |-> Keys[n], availability |-> av[n]]>>] :
        av \in {f \in [1..MatchPersons -> UNION {MatchWindows(n) : n \in 1..MatchPersons}] :
                    \A n \in 1..MatchPersons : f[n] \in MatchWindows(n)}}

InitMatch ==
    /\ pc = "populate"
    /\ current_time = GridEnd
    /\ time_slots = MatchGrid
    /\ schedule \in MatchSchedules
    /\ potential_matches = <<>>
    /\ todo = {}
    /\ k = <<>>
    /\ meetings = <<>>
    /\ match_count = <<>>
    /\ trials = <<>>
    /\ vcal_registry = <<>>
    /\ vcal_by_user = <<>>

NextMatch ==
    \/ populate_time_slots
    \/ calculate_matches
    \/ generate_meetings_begin
    \/ first_trial
    \/ second_trial
    \/ generate_meetings_return
    \/ generate_vcal_files

SpecMatch == InitMatch /\ [][NextMatch]_vars

----------------------------------------------------------------------------
(* Slot grid builder *)

SlotsOn(ts, d) == {i \in 1..Len(ts) : ts[i][1].day = d}

\* C8: when generate_time_slots returns, the dict has exactly 140 slots with
\* pairwise distinct labels, 32 on each of Monday to Thursday and 12 on
\* Friday; every label reads back as a start at an hour in [9, 17) and an end
\* 15 minutes later on the same day; every slot maps to the empty set.
C8_GridHas140Slots ==
    pc = "grid_done" =>
        /\ Len(time_slots) = 140
        /\ \A i, j \in 1..Len(time_slots) :
              time_slots[i][1] = time_slots[j][1] => i = j
        /\ \A d \in {"Monday", "Tuesday", "Wednesday", "Thursday"} :
              Cardinality(SlotsOn(time_slots, d)) = 32
        /\ Cardinality(SlotsOn(time_slots, "Friday")) = 12
        /\ \A i \in 1..Len(time_slots) :
              /\ ~ConvertRaises(time_slots[i][1])
              /\ LET r == convert_to_datetime(time_slots[i][1])
                 IN  /\ (r[1] % 1440) \div 60 \in 9..16
                     /\ r[2] = r[1] + 15
                     /\ r[2] \div 1440 = r[1] \div 1440
              /\ time_slots[i][2] = {}

C8_Witness ==
    /\ pc = "grid_done"
    /\ \E i \in 1..Len(time_slots) :
          time_slots[i][1] = TimeRange("Friday", Clock(11, 45, "AM"), Clock(12, 0, "PM"))
    /\ \E i \in 1..Len(time_slots) :
          time_slots[i][1] = TimeRange("Monday", Clock(4, 45, "PM"), Clock(5, 0, "PM"))

----------------------------------------------------------------------------
(* Availability mapper *)

Windows(n) == schedule[n][2].availability

\* C5: after populate_time_slots, a participant of the schedule is in a slot's
\* set iff one of the participant's windows W has S.start < W.end and
\* S.end > W.start; the slots are still the grid's, in order, and no set holds
\* a key that is not in the schedule.
C5_AvailabilityIffOverlap ==
    pc \in {"mapped", "matched"} =>
        /\ Len(time_slots) = Len(generate_time_slots)
        /\ \A i \in 1..Len(time_slots) :
              /\ time_slots[i][1] = generate_time_slots[i][1]
              /\ time_slots[i][2] \subseteq DictKeys(schedule)
              /\ \A n \in 1..Len(schedule) :
                    schedule[n][1] \in time_slots[i][2]
                    <=> \E j \in 1..Len(Windows(n)) :
                          LET S == convert_to_datetime(time_slots[i][1])
                              W == convert_to_datetime(Windows(n)[j])
                          IN  S[1] < W[2] /\ S[2] > W[1]

\* A window ends exactly where a slot starts and its participant is not in
\* that slot, while being in the slot before.
C5_Witness ==
    /\ pc = "mapped"
    /\ \E n \in 1..Len(schedule), i \in 2..Len(time_slots) :
          /\ Len(Windows(n)) = 1
          /\ convert_to_datetime(Windows(n)[1])[2] = convert_to_datetime(time_slots[i][1])[1]
          /\ schedule[n][1] \notin time_slots[i][2]
          /\ schedule[n][1] \in time_slots[i - 1][2]

\* A window whose text parses and whose end is not later than its start.
InvalidRange(w) ==
    ~ConvertRaises(w) /\ convert_to_datetime(w)[2] <= convert_to_datetime(w)[1]

\* C6: a window whose parsed end is not later than its parsed start makes the
\* run abort during availability mapping, its participant being in no slot's
\* set.
C6_InvalidRangeAborts ==
    \A n \in 1..Len(schedule) :
        (pc # "populate" /\ \E j \in 1..Len(Windows(n)) : InvalidRange(Windows(n)[j]))
        => /\ pc = "raised"
           /\ \A i \in 1..Len(time_slots) : schedule[n][1] \notin time_slots[i][2]

----------------------------------------------------------------------------
(* Matcher *)

\* The slots at which p has a meeting (none when p is not a key of meetings).
MeetingSlots(p) == IF p \in DOMAIN meetings THEN DOMAIN meetings[p] ELSE {}

\* The slots at which a is recorded as meeting b, or b as meeting a.
PairSlots(a, b) ==
    {s \in MeetingSlots(a) : meetings[a][s] = b}
    \cup {s \in MeetingSlots(b) : meetings[b][s] = a}

Participants == DictKeys(schedule)

Available(slot) == DictGet(time_slots, slot)

\* The slot has been given up after two failed trials.
Dropped(slot) == slot \in DOMAIN trials /\ trials[slot] = <<FALSE, FALSE>>

\* C1: in every state of the matcher, no participant has more than 3 meetings.
C1_AtMostThreeMeetings ==
    \A p \in DOMAIN meetings : Cardinality(DOMAIN meetings[p]) <= 3

\* A participant with 3 meetings was refused at a two-person slot shared with
\* somebody whose pair key with the participant was never counted.
C1_Witness ==
    \E p \in Participants, q \in Participants, s \in DOMAIN trials :
        /\ Available(s) = {p, q}
        /\ p # q
        /\ Dropped(s)
        /\ Cardinality(MeetingSlots(p)) = 3
        /\ Cardinality(MeetingSlots(q)) < 3
        /\ PairKey(p, q) \notin DOMAIN match_count

\* C2: in every state of the matcher, no two participants are scheduled
\* together at more than 1 slot, whichever of them an entry is recorded under.
C2_PairMeetsAtMostOnce ==
    \A a \in Participants, b \in Participants : Cardinality(PairSlots(a, b)) <= 1

\* Two participants who met at one slot were refused at another slot that
\* holds just the two of them.
C2_Witness ==
    \E a \in Participants, b \in Participants, s \in DOMAIN trials :
        /\ Available(s) = {a, b}
        /\ Dropped(s)
        /\ Cardinality(PairSlots(a, b)) = 1
        /\ Cardinality(MeetingSlots(a)) < 3
        /\ Cardinality(MeetingSlots(b)) < 3

\* C3: in every state, a's entry at a slot is b iff b's entry at it is a.
C3_Symmetric ==
    \A a \in DOMAIN meetings : \A s \in DOMAIN meetings[a] :
        LET b == meetings[a][s]
        IN  b \in DOMAIN meetings /\ s \in DOMAIN meetings[b] /\ meetings[b][s] = a

C3_Witness ==
    /\ pc = "meetings_done"
    /\ \E a \in DOMAIN meetings : Cardinality(DOMAIN meetings[a]) >= 2

\* C4: for every entry (p meets q at s), p and q are two different members
\* of the availability set of s, and s is a candidate slot.
C4_MutuallyAvailable ==
    \A p \in DOMAIN meetings : \A s \in DOMAIN meetings[p] :
        LET q == meetings[p][s]
        IN  /\ DictHas(time_slots, s)
            /\ p \in Available(s)
            /\ q \in Available(s)
            /\ p # q
            /\ s \in Range(potential_matches)
            /\ Cardinality(Available(s)) >= 2

\* A meeting exists at a slot with more than two participants, while another
\* slot holds a single participant and is no candidate.
C4_Witness ==
    /\ pc = "meetings_done"
    /\ \E p \in DOMAIN meetings : \E s \in DOMAIN meetings[p] :
          Cardinality(Available(s)) > 2
    /\ \E i \in 1..Len(time_slots) :
          Cardinality(time_slots[i][2]) = 1 /\ time_slots[i][1] \notin Range(potential_matches)

\* C9: when the loop reaches a slot that holds exactly two participants, both
\* with fewer than 3 meetings and never paired with each other, the step
\* commits their meeting at that slot.
C9_TwoFreeParticipantsMeet ==
    [][\A s \in todo : \A a \in Participants, b \in Participants :
          (/\ pc = "for"
           /\ s \notin todo'
           /\ a # b
           /\ Available(s) = {a, b}
           /\ Cardinality(MeetingSlots(a)) < 3
           /\ Cardinality(MeetingSlots(b)) < 3
           /\ PairSlots(a, b) = {})
          => (/\ a \in DOMAIN meetings'
              /\ s \in DOMAIN meetings'[a]
              /\ meetings'[a][s] = b)]_vars

\* The number of meetings recorded at a slot, each counted once.
MeetingsAt(slot) ==
    Cardinality({{p, meetings[p][slot]} : p \in {q \in DOMAIN meetings : slot \in DOMAIN meetings[q]}})

BookedAt(slot) == {p \in DOMAIN meetings : slot \in DOMAIN meetings[p]}

\* C10: every candidate slot is handled once; a slot gets a first trial and,
\* only when that fails, one more; it ends with one meeting when a trial
\* passed and with none otherwise; every slot still to come, and the slot of
\* a second trial, holds the two participants a trial draws, so the loop goes
\* on until no slot is left, and then returns.
C10_OneRetryOneMeeting ==
    pc \in {"for", "else", "meetings_done", "vcal_done"} =>
        /\ DOMAIN trials \cup todo = Range(potential_matches)
        /\ DOMAIN trials \cap todo = {}
        /\ pc \in {"meetings_done", "vcal_done"} => todo = {}
        /\ pc = "else" => k # <<>> /\ k[1] \in DOMAIN trials /\ trials[k[1]] = <<FALSE>>
        /\ \A s \in DOMAIN trials :
              /\ \/ trials[s] \in {<<TRUE>>, <<FALSE, TRUE>>, <<FALSE, FALSE>>}
                 \/ pc = "else" /\ k = <<s>> /\ trials[s] = <<FALSE>>
              /\ MeetingsAt(s) = IF trials[s][Len(trials[s])] THEN 1 ELSE 0
              /\ Cardinality(BookedAt(s)) = IF trials[s][Len(trials[s])] THEN 2 ELSE 0
        /\ \A s \in todo : BookedAt(s) = {}
        /\ \A s \in todo : Cardinality(Available(s)) >= 2
        /\ pc = "else" => Cardinality(Available(k[1])) >= 2

\* A slot with more than two participants failed its first trial and got its
\* meeting from the second.
C10_Witness ==
    /\ pc = "meetings_done"
    /\ \E s \in DOMAIN trials :
          /\ trials[s] = <<FALSE, TRUE>>
          /\ Cardinality(Available(s)) > 2
          /\ MeetingsAt(s) = 1
    /\ \E s \in DOMAIN trials : Dropped(s)

----------------------------------------------------------------------------
(* Calendar emitter *)

\* The meetings of the assignment, each once: <<sorted pair, slot>>.
Meetings == {<<SortPair(e[1], e[3]), e[2]>> : e \in Items(meetings)}

\* The invite is the one of the meeting: its two attendees, at the slot's
\* time of week.
InviteOf(invite, mt) ==
    /\ invite.attendee = mt[1]
    /\ invite.dtstart % (7 * 1440) = convert_to_datetime(mt[2])[1]
    /\ invite.dtend = invite.dtstart + 15

UserList(p) == IF p \in DOMAIN vcal_by_user THEN vcal_by_user[p] ELSE <<>>

RegistryInvites == {vcal_registry[key] : key \in DOMAIN vcal_registry}

\* C7: the emitter creates exactly one invite for every meeting of the
\* assignment, and the invite is exactly once in the list of each of its two
\* participants and in nobody else's; a participant's list has as many
\* invites as the participant has meetings.
C7_OneInvitePerMeeting ==
    pc = "vcal_done" =>
        /\ Cardinality(DOMAIN vcal_registry) = Cardinality(Meetings)
        /\ \A mt \in Meetings :
              Cardinality({key \in DOMAIN vcal_registry : InviteOf(vcal_registry[key], mt)}) = 1
        /\ DOMAIN vcal_by_user \subseteq Participants
        /\ \A p \in Participants :
              /\ Len(UserList(p)) = Cardinality(MeetingSlots(p))
              /\ \A i \in 1..Len(UserList(p)) :
                    /\ UserList(p)[i] \in RegistryInvites
                    /\ p \in Range(UserList(p)[i].attendee)
              /\ \A mt \in Meetings :
                    Cardinality({i \in 1..Len(UserList(p)) : InviteOf(UserList(p)[i], mt)})
                    = IF p \in Range(mt[1]) THEN 1 ELSE 0

\* The emitter has run on an assignment in which somebody has two meetings
\* and somebody else has none.
C7_Witness ==
    /\ pc = "vcal_done"
    /\ \E p \in Participants : Len(UserList(p)) = 2 /\ Cardinality(MeetingSlots(p)) = 2
    /\ \E p \in Participants : p \in DOMAIN meetings /\ MeetingSlots(p) = {}
    /\ Cardinality(DOMAIN vcal_registry) >= 2

====
